---- MODULE Spec2Model ----
(***************************************************************************)
(* Model of tiny-udt: the control-info codec of src/packet.rs and the      *)
(* AckWindow of src/window.rs.                                             *)
(*                                                                         *)
(* A u32 is kept as its two 16-bit halves [hi, lo] so that the whole range *)
(* 0 .. 2^32-1 is representable; an i32 is a plain integer.  A byte buffer *)
(* is a sequence over 0..255, buffer[k] of the source being buffer[k+1].   *)
(***************************************************************************)
EXTENDS Integers, Sequences, FiniteSets, TLC

VARIABLES
    \* ---- codec (src/packet.rs) ----
    call,      \* the codec function that ran last, "none" before any
    buffer,    \* the caller-owned byte buffer
    before,    \* contents of the buffer when the last serialize was entered
    val,       \* the control-info value handed to the last serialize
    out,       \* Option<&[u8]> returned by the last serialize
    dec,       \* Option<Self> returned by the last deserialize
    \* ---- AckWindow (src/window.rs) ----
    items,     \* Vec<AckWindowItem>, index 0..SIZE-1
    head,      \* index of the latest ACK record
    tail,      \* index of the oldest ACK record
    now,       \* the monotonic clock read by Instant::now()
    ret,       \* Option<Acknowledgement> returned by the last acknowledge
    hist,      \* the calls made on the window so far, oldest first
    \* ---- PacketTimeWindow (src/window.rs) ----
    packet_window,                \* Vec<Duration>, index 0..ARRIVAL_SIZE-1
    packet_window_index,          \* position pointer of packet_window
    probe_window,                 \* Vec<Duration>, index 0..PROBE_SIZE-1
    probe_window_index,           \* position pointer of probe_window
    last_sent_time,               \* Instant
    min_packet_sending_interval,  \* Duration
    last_arrival_time,            \* Instant
    current_arrival_time,         \* Instant
    probe_time,                   \* Instant
    clock,     \* the Instant that Instant::now() returns
    plog       \* the calls made on the PacketTimeWindow so far, oldest first

codecVars == <<call, buffer, before, val, out, dec>>
ackVars == <<items, head, tail, now, ret, hist>>
ptwVars == <<packet_window, packet_window_index, probe_window,
             probe_window_index, last_sent_time, min_packet_sending_interval,
             last_arrival_time, current_arrival_time, probe_time, clock, plog>>
vars == <<call, buffer, before, val, out, dec, items, head, tail, now, ret, hist,
          packet_window, packet_window_index, probe_window,
          probe_window_index, last_sent_time, min_packet_sending_interval,
          last_arrival_time, current_arrival_time, probe_time, clock, plog>>

None == [tag |-> "None"]
Some(v) == [tag |-> "Some", v |-> v]

-----------------------------------------------------------------------------
(* Program constants, src/packet.rs:370-380 *)
UDT_VERSION == 4
HANDSHAKE_SIZE == 48
ACK_SMALL_SIZE == 4
ACK_MEDIUM_SIZE == ACK_SMALL_SIZE + 12
ACK_BIG_SIZE == ACK_MEDIUM_SIZE + 8
NAK_SMALL_SIZE == 4
NAK_BIG_SIZE == 8
MDR_SIZE == 8

(* Bounds of the model *)
\* caller buffers have 0..MaxBufLen bytes
MaxBufLen == 50

-----------------------------------------------------------------------------
(* Integer <-> byte conversions *)

U32(hi, lo) == [hi |-> hi, lo |-> lo]
U32Of(n) == U32(n \div 65536, n % 65536)      \* for 0 <= n < 2^31

\* u32::to_le_bytes, mutated to the big-endian order
U32ToLeBytes_BigEndian(x) ==
    << x.hi \div 256, x.hi % 256, x.lo \div 256, x.lo % 256 >>

\* u32::to_le_bytes
U32ToLeBytes(x) ==
    << x.lo % 256, x.lo \div 256, x.hi % 256, x.hi \div 256 >>

\* u32::from_le_bytes, mutated to drop the most significant byte
U32FromLeBytes_Low24(b) ==
    [hi |-> b[3], lo |-> b[1] + 256 * b[2]]

\* u32::from_le_bytes([b0, b1, b2, b3])
U32FromLeBytes(b) ==
    [hi |-> b[3] + 256 * b[4], lo |-> b[1] + 256 * b[2]]

\* i32::to_le_bytes: two's complement, least significant byte first
I32ToLeBytes(v) ==
    LET u == IF v >= 0 THEN v ELSE (v + 2147483647) + 1   \* the low 31 bits
        top == IF v >= 0 THEN 0 ELSE 128                   \* the sign bit
    IN  << u % 256, (u \div 256) % 256, (u \div 65536) % 256,
           (u \div 16777216) + top >>

\* i32::from_le_bytes
I32FromLeBytes(b) ==
    LET u == b[1] + 256 * b[2] + 65536 * b[3] + 16777216 * (b[4] % 128)
    IN  IF b[4] >= 128 THEN (u - 2147483647) - 1 ELSE u

\* buffer[off .. off+Len(bytes)].copy_from_slice(bytes), off counted from 0
CopyFromSlice(buf, off, bytes) ==
    [i \in 1..Len(buf) |->
        IF off < i /\ i <= off + Len(bytes) THEN bytes[i - off] ELSE buf[i]]

\* buffer.split_at(n).0
SplitAt0(buf, n) == SubSeq(buf, 1, n)

\* [buffer[off], buffer[off+1], buffer[off+2], buffer[off+3]], off from 0
Word(buf, off) == << buf[off + 1], buf[off + 2], buf[off + 3], buf[off + 4] >>

\* what a serialize call leaves behind: the buffer and the returned slice
Wrote(buf, res) == [buffer |-> buf, out |-> res]

-----------------------------------------------------------------------------
(* MessageDropRequestControlInfo, src/packet.rs:42-73 *)

MessageDropRequestControlInfo_serialize(self, buf) ==
    IF Len(buf) < MDR_SIZE THEN Wrote(buf, None)
    ELSE LET b1 == CopyFromSlice(buf, 0, U32ToLeBytes(self.first_seq_no))
             b2 == CopyFromSlice(b1, 4, U32ToLeBytes(self.last_seq_no))
         IN  Wrote(b2, Some(SplitAt0(b2, MDR_SIZE)))

MessageDropRequestControlInfo_deserialize(buf) ==
    IF Len(buf) # MDR_SIZE THEN None
    ELSE Some([first_seq_no |-> U32FromLeBytes(Word(buf, 0)),
               last_seq_no |-> U32FromLeBytes(Word(buf, 4))])

-----------------------------------------------------------------------------
(* NakControlInfo, src/packet.rs:88-120 *)

NakSingle(s) == [variant |-> "Single", seq_no |-> s]
NakMultiple(a, b) == [variant |-> "Multiple", loss_data |-> <<a, b>>]

NakControlInfo_serialize(self, buf) ==
    IF self.variant = "Single" /\ Len(buf) >= NAK_SMALL_SIZE
    THEN LET b1 == CopyFromSlice(buf, 0, U32ToLeBytes(self.seq_no))
         IN  Wrote(b1, Some(SplitAt0(b1, NAK_SMALL_SIZE)))
    ELSE IF self.variant = "Multiple" /\ Len(buf) >= NAK_BIG_SIZE
    THEN LET b1 == CopyFromSlice(buf, 0, U32ToLeBytes(self.loss_data[1]))
             b2 == CopyFromSlice(b1, 4, U32ToLeBytes(self.loss_data[2]))
         IN  Wrote(b2, Some(SplitAt0(b2, NAK_BIG_SIZE)))
    ELSE Wrote(buf, None)

NakControlInfo_deserialize(buf) ==
    IF Len(buf) = NAK_BIG_SIZE
    THEN Some(NakMultiple(U32FromLeBytes(Word(buf, 0)),
                          U32FromLeBytes(Word(buf, 4))))
    ELSE IF Len(buf) = NAK_SMALL_SIZE
    THEN Some(NakSingle(U32FromLeBytes(Word(buf, 0))))
    ELSE None

-----------------------------------------------------------------------------
(* AckControlInfo, src/packet.rs:132-222 *)

AckAdditionalInfo(rtt, rtt_var, buffer_size, sab) ==
    [rtt |-> rtt, rtt_var |-> rtt_var, buffer_size |-> buffer_size,
     speed_and_bandwidth |-> sab]
AckControlInfo(rla, info) == [received_last_ack |-> rla, info |-> info]

\* serialize, mutated to fall back to the largest tier the buffer can hold
AckControlInfo_serialize_Downgrade(self, buf) ==
    LET b1 == CopyFromSlice(buf, 0, U32ToLeBytes(self.received_last_ack))
        info == self.info.v
        b2 == CopyFromSlice(b1, 4, U32ToLeBytes(info.rtt))
        b3 == CopyFromSlice(b2, 8, U32ToLeBytes(info.rtt_var))
        b4 == CopyFromSlice(b3, 12, U32ToLeBytes(info.buffer_size))
        sab == info.speed_and_bandwidth.v
        b5 == CopyFromSlice(b4, 16, U32ToLeBytes(sab[1]))
        b6 == CopyFromSlice(b5, 20, U32ToLeBytes(sab[2]))
    IN  IF Len(buf) < ACK_SMALL_SIZE THEN Wrote(buf, None)
        ELSE IF self.info = None \/ Len(buf) < ACK_MEDIUM_SIZE
        THEN Wrote(b1, Some(SplitAt0(b1, ACK_SMALL_SIZE)))
        ELSE IF info.speed_and_bandwidth = None \/ Len(buf) < ACK_BIG_SIZE
        THEN Wrote(b4, Some(SplitAt0(b4, ACK_MEDIUM_SIZE)))
        ELSE Wrote(b6, Some(SplitAt0(b6, ACK_BIG_SIZE)))

AckControlInfo_serialize(self, buf) ==
    LET b1 == CopyFromSlice(buf, 0, U32ToLeBytes(self.received_last_ack))
        info == self.info.v
        b2 == CopyFromSlice(b1, 4, U32ToLeBytes(info.rtt))
        b3 == CopyFromSlice(b2, 8, U32ToLeBytes(info.rtt_var))
        b4 == CopyFromSlice(b3, 12, U32ToLeBytes(info.buffer_size))
        sab == info.speed_and_bandwidth.v
        b5 == CopyFromSlice(b4, 16, U32ToLeBytes(sab[1]))
        b6 == CopyFromSlice(b5, 20, U32ToLeBytes(sab[2]))
    IN  IF Len(buf) < ACK_SMALL_SIZE THEN Wrote(buf, None)
        ELSE IF self.info = None
        THEN Wrote(b1, Some(SplitAt0(b1, ACK_SMALL_SIZE)))
        ELSE IF Len(buf) < ACK_MEDIUM_SIZE THEN Wrote(b1, None)
        ELSE IF info.speed_and_bandwidth = None
        THEN Wrote(b4, Some(SplitAt0(b4, ACK_MEDIUM_SIZE)))
        ELSE IF Len(buf) < ACK_BIG_SIZE THEN Wrote(b4, None)
        ELSE Wrote(b6, Some(SplitAt0(b6, ACK_BIG_SIZE)))

AckControlInfo_deserialize(buf) ==
    LET received_last_ack == U32FromLeBytes(Word(buf, 0))
        speed_and_bandwidth ==
            IF Len(buf) = ACK_BIG_SIZE
            THEN Some(<< U32FromLeBytes(Word(buf, 16)),
                         U32FromLeBytes(Word(buf, 20)) >>)
            ELSE None
    IN  IF Len(buf) < ACK_SMALL_SIZE THEN None
        ELSE IF Len(buf) = ACK_SMALL_SIZE
        THEN Some(AckControlInfo(received_last_ack, None))
        ELSE IF Len(buf) = ACK_MEDIUM_SIZE \/ Len(buf) = ACK_BIG_SIZE
        THEN Some(AckControlInfo(received_last_ack,
                 Some(AckAdditionalInfo(U32FromLeBytes(Word(buf, 4)),
                                        U32FromLeBytes(Word(buf, 8)),
                                        U32FromLeBytes(Word(buf, 12)),
                                        speed_and_bandwidth))))
        ELSE None

-----------------------------------------------------------------------------
(* HandshakeControlInfo, src/packet.rs:259-362 *)

HandshakeControlInfo_serialize(self, buf) ==
    LET b1 == CopyFromSlice(buf, 0, << UDT_VERSION, 0, 0, 0 >>)
        b2 == CopyFromSlice(b1, 4,
                 << IF self.socket_type = "Stream" THEN 1 ELSE 2, 0, 0, 0 >>)
        b3 == CopyFromSlice(b2, 8, U32ToLeBytes(self.isn))
        b4 == CopyFromSlice(b3, 12, U32ToLeBytes(self.mss))
        b5 == CopyFromSlice(b4, 16, U32ToLeBytes(self.flight_flag_size))
        b6 == CopyFromSlice(b5, 20, I32ToLeBytes(self.request_type))
        b7 == CopyFromSlice(b6, 24, U32ToLeBytes(self.id))
        b8 == CopyFromSlice(b7, 28, U32ToLeBytes(self.cookie))
        b9 == CopyFromSlice(b8, 32, U32ToLeBytes(self.ip[1]))
        b10 == CopyFromSlice(b9, 36, U32ToLeBytes(self.ip[2]))
        b11 == CopyFromSlice(b10, 40, U32ToLeBytes(self.ip[3]))
        b12 == CopyFromSlice(b11, 44, U32ToLeBytes(self.ip[4]))
    IN  IF Len(buf) < HANDSHAKE_SIZE THEN Wrote(buf, None)
        ELSE Wrote(b12, Some(SplitAt0(b12, HANDSHAKE_SIZE)))

HandshakeFields(socket_type, buf) ==
    [socket_type |-> socket_type,
     isn |-> U32FromLeBytes(Word(buf, 8)),
     mss |-> U32FromLeBytes(Word(buf, 12)),
     flight_flag_size |-> U32FromLeBytes(Word(buf, 16)),
     request_type |-> I32FromLeBytes(Word(buf, 20)),
     id |-> U32FromLeBytes(Word(buf, 24)),
     cookie |-> U32FromLeBytes(Word(buf, 28)),
     ip |-> << U32FromLeBytes(Word(buf, 32)), U32FromLeBytes(Word(buf, 36)),
               U32FromLeBytes(Word(buf, 40)), U32FromLeBytes(Word(buf, 44)) >>]

\* deserialize, mutated to skip the version check and to take any other
\* socket-type byte for Datagram
HandshakeControlInfo_deserialize_Lenient(buf) ==
    IF Len(buf) < HANDSHAKE_SIZE THEN None
    ELSE IF buf[5] = 1 THEN Some(HandshakeFields("Stream", buf))
    ELSE Some(HandshakeFields("Datagram", buf))

HandshakeControlInfo_deserialize(buf) ==
    IF Len(buf) < HANDSHAKE_SIZE THEN None
    ELSE IF buf[1] # UDT_VERSION THEN None
    ELSE IF buf[5] = 1 THEN Some(HandshakeFields("Stream", buf))
    ELSE IF buf[5] = 2 THEN Some(HandshakeFields("Datagram", buf))
    ELSE None


-----------------------------------------------------------------------------
(* AckWindow<SIZE>, src/window.rs:3-121 *)

\* the const generic SIZE of AckWindow
SIZE == 3
\* calls (and clock ticks) made on one window
MaxOps == 5
\* the clock runs from 0 to MaxTime
MaxTime == 2

\* seq_no arguments
SeqNos == {-1, 0, 1}
\* data_seq_no arguments
DataSeqNos == {7, 9}

Window(its, h, t) == [items |-> its, head |-> h, tail |-> t]

\* AckWindowItem::default, with the clock reading t
AckWindowItem_default(t) == [timestamp |-> t, seq_no |-> 0, data_seq_no |-> 0]

\* AckWindow::new
AckWindow_new(t) ==
    Window([i \in 0..(SIZE - 1) |->
               IF i = 0 THEN [AckWindowItem_default(t) EXCEPT !.seq_no = -1]
               ELSE AckWindowItem_default(t)],
           0, 0)

\* Instant::saturating_duration_since
SaturatingDurationSince(later, earlier) ==
    IF later >= earlier THEN later - earlier ELSE 0

\* AckWindowItem::make_ack, with the clock reading t
make_ack(item, t) ==
    [data_seq_no |-> item.data_seq_no,
     rtt |-> SaturatingDurationSince(t, item.timestamp)]

\* store, mutated to leave tail alone when head catches up with it
AckWindow_store_NoEvict(w, seq_no, data_seq_no, t) ==
    Window([w.items EXCEPT ![w.head] =
               [timestamp |-> t, seq_no |-> seq_no,
                data_seq_no |-> data_seq_no]],
           (w.head + 1) % SIZE, w.tail)

\* store, mutated to advance head without the modulo
AckWindow_store_NoWrap(w, seq_no, data_seq_no, t) ==
    LET its == [w.items EXCEPT ![w.head] =
                   [timestamp |-> t, seq_no |-> seq_no,
                    data_seq_no |-> data_seq_no]]
        h == w.head + 1
    IN  Window(its, h, IF h = w.tail THEN (w.tail + 1) % SIZE ELSE w.tail)

\* AckWindow::store, with the clock reading t
AckWindow_store(w, seq_no, data_seq_no, t) ==
    LET its == [w.items EXCEPT ![w.head] =
                   [timestamp |-> t, seq_no |-> seq_no,
                    data_seq_no |-> data_seq_no]]
        h == (w.head + 1) % SIZE
    IN  Window(its, h, IF h = w.tail THEN (w.tail + 1) % SIZE ELSE w.tail)

\* bump_or_reset, mutated to keep the older records when the newest matched
bump_or_reset_KeepOlder(w, i) ==
    IF i + 1 = w.head THEN w
    ELSE Window(w.items, w.head, (i + 1) % SIZE)

\* bump_or_reset, mutated to move tail to the matched slot instead of the
\* slot after it
bump_or_reset_TailAtMatch(w, i) ==
    IF i + 1 = w.head
    THEN Window([w.items EXCEPT ![0].seq_no = -1], 0, 0)
    ELSE Window(w.items, w.head, i % SIZE)

\* AckWindow::bump_or_reset
bump_or_reset(w, i) ==
    IF i + 1 = w.head
    THEN Window([w.items EXCEPT ![0].seq_no = -1], 0, 0)
    ELSE Window(w.items, w.head, (i + 1) % SIZE)

\* the indices the two loops of acknowledge run over, in order:
\* tail..head when head >= tail, tail..(head + SIZE) otherwise
ScanRange(w) ==
    IF w.head >= w.tail THEN w.tail..(w.head - 1)
    ELSE w.tail..(w.head + SIZE - 1)

\* the index store passes to get_unchecked_mut
AckWindow_store_index(w) == w.head

\* the indices acknowledge(seq_no) passes to get_unchecked_mut: i in the
\* first loop, i % SIZE in the second, for every i up to the first match
AckWindow_acknowledge_indices(w, seq_no) ==
    LET found == {i \in ScanRange(w) : w.items[i % SIZE].seq_no = seq_no}
        scanned == {i \in ScanRange(w) : \A j \in found : i <= j}
    IN  IF w.head >= w.tail THEN scanned ELSE {i % SIZE : i \in scanned}

\* acknowledge, mutated to take the last match of the scan, not the first
AckWindow_acknowledge_LastMatch(w, seq_no, t) ==
    LET found == {i \in ScanRange(w) : w.items[i % SIZE].seq_no = seq_no}
        i == CHOOSE j \in found : \A k \in found : j >= k
    IN  IF found = {} THEN [window |-> w, ret |-> None]
        ELSE [window |-> bump_or_reset(w, i),
              ret |-> Some(make_ack(w.items[i % SIZE], t))]

\* acknowledge, mutated to search every slot instead of the live range
AckWindow_acknowledge_AnySlot(w, seq_no, t) ==
    LET found == {i \in 0..(SIZE - 1) : w.items[i].seq_no = seq_no}
        i == CHOOSE j \in found : \A k \in found : j <= k
    IN  IF found = {} THEN [window |-> w, ret |-> None]
        ELSE [window |-> bump_or_reset(w, i),
              ret |-> Some(make_ack(w.items[i], t))]

\* acknowledge, mutated to empty the window when nothing matches
AckWindow_acknowledge_ClearOnMiss(w, seq_no, t) ==
    LET found == {i \in ScanRange(w) : w.items[i % SIZE].seq_no = seq_no}
        i == CHOOSE j \in found : \A k \in found : j <= k
    IN  IF found = {} THEN [window |-> Window(w.items, w.head, w.head),
                            ret |-> None]
        ELSE [window |-> bump_or_reset(w, i),
              ret |-> Some(make_ack(w.items[i % SIZE], t))]

\* AckWindow::acknowledge, with the clock reading t: the window it leaves
\* and the value it returns
AckWindow_acknowledge(w, seq_no, t) ==
    LET found == {i \in ScanRange(w) : w.items[i % SIZE].seq_no = seq_no}
        i == CHOOSE j \in found : \A k \in found : j <= k
    IN  IF found = {} THEN [window |-> w, ret |-> None]
        ELSE [window |-> bump_or_reset(w, i),
              ret |-> Some(make_ack(w.items[i % SIZE], t))]

-----------------------------------------------------------------------------
(* PacketTimeWindow<ARRIVAL_SIZE, PROBE_SIZE>, src/window.rs:123-268       *)
(*                                                                         *)
(* A Duration is [secs, nanos] with nanos < 10^9, as in std::time; an      *)
(* Instant is the Duration since an arbitrary origin.  A u64 is kept as    *)
(* its four 16-bit digits, most significant first.                         *)

\* the const generic ARRIVAL_SIZE
ARRIVAL_SIZE == 3
\* the const generic PROBE_SIZE
PROBE_SIZE == 2
\* calls made on one PacketTimeWindow
MaxCalls == 4

Duration(secs, nanos) == [secs |-> secs, nanos |-> nanos]

\* Duration::from_secs
from_secs(n) == Duration(n, 0)

\* Duration::from_millis, for n < 1000
from_millis(n) == Duration(0, n * 1000000)

\* Duration::from_micros, for n < 1000000
from_micros(n) == Duration(0, n * 1000)

\* Duration::default
Duration_default == Duration(0, 0)

\* Duration::is_zero
is_zero(d) == d.secs = 0 /\ d.nanos = 0

\* a < b on Duration and on Instant
Before(a, b) == a.secs < b.secs \/ (a.secs = b.secs /\ a.nanos < b.nanos)

\* Duration::as_micros() as u64
as_micros(d) == d.secs * 1000000 + d.nanos \div 1000

\* Instant + Duration
Later(t, d) ==
    IF t.nanos + d.nanos >= 1000000000
    THEN Duration(t.secs + d.secs + 1, t.nanos + d.nanos - 1000000000)
    ELSE Duration(t.secs + d.secs, t.nanos + d.nanos)

\* Instant::saturating_duration_since on the Instants of the time window
saturating_duration_since(later, earlier) ==
    IF Before(later, earlier) THEN Duration(0, 0)
    ELSE IF later.nanos >= earlier.nanos
    THEN Duration(later.secs - earlier.secs, later.nanos - earlier.nanos)
    ELSE Duration(later.secs - earlier.secs - 1,
                  later.nanos + 1000000000 - earlier.nanos)

U64(n) == << 0, 0, n \div 65536, n % 65536 >>       \* for 0 <= n < 2^31
U64_MAX == << 65535, 65535, 65535, 65535 >>

\* [Duration; n]::select_nth_unstable(k).1: the element that a sort would
\* put at index k
select_nth_unstable(w, n, k) ==
    CHOOSE v \in {w[i] : i \in 0..(n - 1)} :
        /\ Cardinality({i \in 0..(n - 1) : Before(w[i], v)}) <= k
        /\ Cardinality({i \in 0..(n - 1) : ~Before(v, w[i])}) > k

RECURSIVE SumOver(_, _)
\* the sum of f[i] over the finite set idx of indices
SumOver(f, idx) ==
    IF idx = {} THEN 0
    ELSE LET i == CHOOSE j \in idx : TRUE
         IN  f[i] + SumOver(f, idx \ {i})

\* (1000000.0f64 / (total as f64 / count as f64)) as u64, count > 0: the
\* values the two roundings of the f64 arithmetic can give.  The cast
\* truncates and saturates.  A zero total divides by 0.0 to infinity.  The
\* quotient of integers is exact when count divides total; otherwise the
\* average is rounded, which can move a quotient that is an integer to just
\* below it, and moves no other quotient across an integer.
RateF64(total, count) ==
    LET q == (1000000 * count) \div total
    IN  IF total = 0 THEN {U64_MAX}
        ELSE IF (1000000 * count) % total = 0 /\ total % count # 0 /\ q > 0
        THEN {U64(q - 1), U64(q)}
        ELSE {U64(q)}

\* the band filter shared by the two estimators: the indices of the samples
\* (in microseconds) inside [median >> 3, median << 3)
InBand(micros, n, median) ==
    {i \in 0..(n - 1) : (median \div 8) <= micros[i] /\ micros[i] < median * 8}

\* PacketTimeWindow::new at the Instant t
PacketTimeWindow_new(t) ==
    [ packet_window |-> [i \in 0..(ARRIVAL_SIZE - 1) |-> from_secs(1)],
      packet_window_index |-> 0,
      probe_window |-> [i \in 0..(PROBE_SIZE - 1) |-> from_millis(1)],
      probe_window_index |-> 0,
      last_sent_time |-> t,
      min_packet_sending_interval |-> Duration_default,
      last_arrival_time |-> t,
      current_arrival_time |-> t,
      probe_time |-> t ]

\* PacketTimeWindow::min_packet_sending_interval
min_packet_sending_interval_get(w) == w.min_packet_sending_interval

\* PacketTimeWindow::on_packet_sent
on_packet_sent(w, current_time) ==
    LET interval == saturating_duration_since(current_time, w.last_sent_time)
        lowered ==
            IF Before(interval, w.min_packet_sending_interval)
               /\ ~is_zero(interval)
            THEN [w EXCEPT !.min_packet_sending_interval = interval]
            ELSE w
    IN  [lowered EXCEPT !.last_sent_time = current_time]

\* on_packet_arrival, mutated to write every interval to slot 0
on_packet_arrival_Slot0(w, t) ==
    [w EXCEPT !.current_arrival_time = t,
              !.packet_window[0] =
                  saturating_duration_since(t, w.last_arrival_time),
              !.packet_window_index = (@ + 1) % ARRIVAL_SIZE,
              !.last_arrival_time = t]

\* PacketTimeWindow::on_packet_arrival, Instant::now() returning t
on_packet_arrival(w, t) ==
    [w EXCEPT !.current_arrival_time = t,
              !.packet_window[w.packet_window_index] =
                  saturating_duration_since(t, w.last_arrival_time),
              !.packet_window_index = (@ + 1) % ARRIVAL_SIZE,
              !.last_arrival_time = t]

\* the index on_packet_arrival passes to get_unchecked_mut
on_packet_arrival_index(w) == w.packet_window_index

\* the index probe2_arrival passes to get_unchecked_mut
probe2_arrival_index(w) == w.probe_window_index

\* PacketTimeWindow::probe1_arrival, Instant::now() returning t
probe1_arrival(w, t) == [w EXCEPT !.probe_time = t]

\* PacketTimeWindow::probe2_arrival, Instant::now() returning t
probe2_arrival(w, t) ==
    [w EXCEPT !.current_arrival_time = t,
              !.probe_window[w.probe_window_index] =
                  saturating_duration_since(t, w.probe_time),
              !.probe_window_index = (@ + 1) % PROBE_SIZE]

\* get_packet_receive_speed, mutated to round the rate to the nearest
\* integer
get_packet_receive_speed_Rounded(w) ==
    LET micros == [i \in 0..(ARRIVAL_SIZE - 1) |-> as_micros(w[i])]
        median == as_micros(select_nth_unstable(w, ARRIVAL_SIZE,
                                                ARRIVAL_SIZE \div 2))
        kept == InBand(micros, ARRIVAL_SIZE, median)
        count == Cardinality(kept)
        total_duration == SumOver(micros, kept)
    IN  IF count > ARRIVAL_SIZE \div 2
        THEN {U64((2 * 1000000 * count + total_duration)
                  \div (2 * total_duration))}
        ELSE {U64(0)}

\* PacketTimeWindow::get_packet_receive_speed on the window w: the values
\* it can return.  The local array the code sorts is a copy of the window:
\* copy_from_slice overwrites all of it before anything reads it.
get_packet_receive_speed(w) ==
    LET micros == [i \in 0..(ARRIVAL_SIZE - 1) |-> as_micros(w[i])]
        median == as_micros(select_nth_unstable(w, ARRIVAL_SIZE,
                                                ARRIVAL_SIZE \div 2))
        kept == InBand(micros, ARRIVAL_SIZE, median)
        count == Cardinality(kept)
        total_duration == SumOver(micros, kept)
    IN  IF count > ARRIVAL_SIZE \div 2
        THEN RateF64(total_duration, count)
        ELSE {U64(0)}

\* get_bandwidth, mutated to start from count = 0 and total_duration = 0
get_bandwidth_NoSeed(w) ==
    LET micros == [i \in 0..(PROBE_SIZE - 1) |-> as_micros(w[i])]
        median == as_micros(select_nth_unstable(w, PROBE_SIZE,
                                                PROBE_SIZE \div 2))
        kept == InBand(micros, PROBE_SIZE, median)
        count == Cardinality(kept)
        total_duration == SumOver(micros, kept)
    IN  IF count = 0 THEN {U64_MAX} ELSE RateF64(total_duration, count)

\* PacketTimeWindow::get_bandwidth on the window w: the values it can return
get_bandwidth(w) ==
    LET micros == [i \in 0..(PROBE_SIZE - 1) |-> as_micros(w[i])]
        median == as_micros(select_nth_unstable(w, PROBE_SIZE,
                                                PROBE_SIZE \div 2))
        kept == InBand(micros, PROBE_SIZE, median)
        count == 1 + Cardinality(kept)
        total_duration == median + SumOver(micros, kept)
    IN  RateF64(total_duration, count)


-----------------------------------------------------------------------------
(* Inputs of the codec *)

WMax == U32(65535, 65535)          \* 0xFFFFFFFF
FillBytes == {0, 170}

\* caller buffers handed to serialize
FreshBuffers == {[i \in 1..n |-> f] : n \in 0..MaxBufLen, f \in FillBytes}

AckInfos ==
    {None} \cup
    {Some(AckAdditionalInfo(rtt, rtt_var, buffer_size, sab)) :
        rtt \in {U32Of(286397204), U32(0, 0)},
        rtt_var \in {U32Of(555885348), WMax},
        buffer_size \in {U32Of(825373492), U32(32768, 0)},
        sab \in {None} \cup
                {Some(<<speed, bandwidth>>) :
                    speed \in {U32Of(1094861636), U32Of(1)},
                    bandwidth \in {U32Of(1364349780), WMax}}}
AckValues ==
    {AckControlInfo(rla, info) : rla \in {U32Of(1000), WMax}, info \in AckInfos}

NakWords == {U32Of(5), U32Of(10), U32Of(16909060), WMax}
NakValues ==
    {NakSingle(s) : s \in NakWords} \cup
    {NakMultiple(a, b) : a \in NakWords, b \in NakWords}

MdrValues ==
    {[first_seq_no |-> a, last_seq_no |-> b] :
        a \in {U32(0, 0), U32Of(16909060), WMax},
        b \in {U32Of(1), U32Of(84281096), WMax}}

HandshakeValues ==
    {[socket_type |-> st, isn |-> isn, mss |-> mss, flight_flag_size |-> ffs,
      request_type |-> rt, id |-> id, cookie |-> ck, ip |-> ip] :
        st \in {"Stream", "Datagram"},
        isn \in {U32Of(16909060), WMax},
        mss \in {U32Of(1500), U32(32768, 0)},
        ffs \in {U32Of(25600), WMax},
        rt \in {-2147483647 - 1, -1, 0, 1, 2147483647},
        id \in {U32Of(84281096), U32(0, 0)},
        ck \in {U32Of(2018915346), WMax},
        ip \in {<< U32Of(16777343), U32(0, 0), U32(0, 0), U32(0, 0) >>,
                << U32Of(286397204), U32Of(555885348),
                   U32Of(825373492), WMax >>}}

\* received payloads handed to deserialize: any length, a version byte at
\* offset 0, a socket-type byte at offset 4
Payloads ==
    {[i \in 1..n |-> IF i = 1 THEN v ELSE IF i = 5 THEN t ELSE f] :
        n \in 0..MaxBufLen, v \in {0, 3, 4, 5, 255}, t \in {0, 1, 2, 3, 255},
        f \in FillBytes \cup {255}}

-----------------------------------------------------------------------------
(* The codec as a state machine: one serialize into a caller buffer, then  *)
(* one deserialize of the slice it returned                                *)

Serialized(name, x, r) ==
    /\ call' = name
    /\ val' = x
    /\ before' = buffer
    /\ buffer' = r.buffer
    /\ out' = r.out
    /\ UNCHANGED <<dec, items, head, tail, now, ret, hist>>
    /\ UNCHANGED ptwVars

Deserialized(name, r) ==
    /\ call' = name
    /\ dec' = r
    /\ UNCHANGED <<buffer, before, val, out, items, head, tail, now, ret, hist>>
    /\ UNCHANGED ptwVars

AckSerialize ==
    /\ call = "none"
    /\ \E x \in AckValues :
          Serialized("AckControlInfo::serialize", x,
                     AckControlInfo_serialize(x, buffer))

NakSerialize ==
    /\ call = "none"
    /\ \E x \in NakValues :
          Serialized("NakControlInfo::serialize", x,
                     NakControlInfo_serialize(x, buffer))

MdrSerialize ==
    /\ call = "none"
    /\ \E x \in MdrValues :
          Serialized("MessageDropRequestControlInfo::serialize", x,
                     MessageDropRequestControlInfo_serialize(x, buffer))

HandshakeSerialize ==
    /\ call = "none"
    /\ \E x \in HandshakeValues :
          Serialized("HandshakeControlInfo::serialize", x,
                     HandshakeControlInfo_serialize(x, buffer))

AckRoundTrip ==
    /\ call = "AckControlInfo::serialize"
    /\ out # None
    /\ Deserialized("AckControlInfo::deserialize",
                    AckControlInfo_deserialize(out.v))

NakRoundTrip ==
    /\ call = "NakControlInfo::serialize"
    /\ out # None
    /\ Deserialized("NakControlInfo::deserialize",
                    NakControlInfo_deserialize(out.v))

MdrRoundTrip ==
    /\ call = "MessageDropRequestControlInfo::serialize"
    /\ out # None
    /\ Deserialized("MessageDropRequestControlInfo::deserialize",
                    MessageDropRequestControlInfo_deserialize(out.v))

HandshakeRoundTrip ==
    /\ call = "HandshakeControlInfo::serialize"
    /\ out # None
    /\ Deserialized("HandshakeControlInfo::deserialize",
                    HandshakeControlInfo_deserialize(out.v))

WindowIdle ==
    /\ items = AckWindow_new(0).items
    /\ head = 0
    /\ tail = 0
    /\ now = 0
    /\ ret = None
    /\ hist = << >>

CodecIdle ==
    /\ call = "none"
    /\ before = buffer
    /\ val = None
    /\ out = None
    /\ dec = None

\* the time window as constructed at the origin of the clock, no call made
PtwIdle ==
    LET w == PacketTimeWindow_new(Duration(0, 0))
    IN  /\ clock = Duration(0, 0)
        /\ packet_window = w.packet_window
        /\ packet_window_index = w.packet_window_index
        /\ probe_window = w.probe_window
        /\ probe_window_index = w.probe_window_index
        /\ last_sent_time = w.last_sent_time
        /\ min_packet_sending_interval = w.min_packet_sending_interval
        /\ last_arrival_time = w.last_arrival_time
        /\ current_arrival_time = w.current_arrival_time
        /\ probe_time = w.probe_time
        /\ plog = << >>

InitCodec ==
    /\ buffer \in FreshBuffers
    /\ CodecIdle
    /\ WindowIdle
    /\ PtwIdle

NextCodec ==
    \/ AckSerialize
    \/ NakSerialize
    \/ MdrSerialize
    \/ HandshakeSerialize
    \/ AckRoundTrip
    \/ NakRoundTrip
    \/ MdrRoundTrip
    \/ HandshakeRoundTrip

SpecCodec == InitCodec /\ [][NextCodec]_vars

-----------------------------------------------------------------------------
(* Decoding of received payloads: one deserialize of an arbitrary buffer *)

AckDeserialize ==
    /\ call = "none"
    /\ Deserialized("AckControlInfo::deserialize",
                    AckControlInfo_deserialize(buffer))

NakDeserialize ==
    /\ call = "none"
    /\ Deserialized("NakControlInfo::deserialize",
                    NakControlInfo_deserialize(buffer))

MdrDeserialize ==
    /\ call = "none"
    /\ Deserialized("MessageDropRequestControlInfo::deserialize",
                    MessageDropRequestControlInfo_deserialize(buffer))

HandshakeDeserialize ==
    /\ call = "none"
    /\ Deserialized("HandshakeControlInfo::deserialize",
                    HandshakeControlInfo_deserialize(buffer))

InitDecode ==
    /\ buffer \in Payloads
    /\ CodecIdle
    /\ WindowIdle
    /\ PtwIdle

NextDecode ==
    \/ AckDeserialize
    \/ NakDeserialize
    \/ MdrDeserialize
    \/ HandshakeDeserialize

SpecDecode == InitDecode /\ [][NextDecode]_vars


-----------------------------------------------------------------------------
(* Properties of the codec *)

SerializeCalls ==
    {"AckControlInfo::serialize", "NakControlInfo::serialize",
     "MessageDropRequestControlInfo::serialize",
     "HandshakeControlInfo::serialize"}

DeserializeCalls ==
    {"AckControlInfo::deserialize", "NakControlInfo::deserialize",
     "MessageDropRequestControlInfo::deserialize",
     "HandshakeControlInfo::deserialize"}

\* the type a call belongs to
TypeOf(c) ==
    IF c \in {"AckControlInfo::serialize", "AckControlInfo::deserialize"}
    THEN "Ack"
    ELSE IF c \in {"NakControlInfo::serialize", "NakControlInfo::deserialize"}
    THEN "Nak"
    ELSE IF c \in {"MessageDropRequestControlInfo::serialize",
                   "MessageDropRequestControlInfo::deserialize"}
    THEN "Mdr"
    ELSE IF c \in {"HandshakeControlInfo::serialize",
                   "HandshakeControlInfo::deserialize"}
    THEN "Handshake"
    ELSE "none"

\* the wire length of value x of type ty, by the fields it populates
WireSize(ty, x) ==
    CASE ty = "Ack" ->
            IF x.info = None THEN 4
            ELSE IF x.info.v.speed_and_bandwidth = None THEN 16 ELSE 24
      [] ty = "Nak" -> IF x.variant = "Single" THEN 4 ELSE 8
      [] ty = "Mdr" -> 8
      [] ty = "Handshake" -> 48

\* the wire lengths of a type
WireLengths(ty) ==
    CASE ty = "Ack" -> {4, 16, 24}
      [] ty = "Nak" -> {4, 8}
      [] ty = "Mdr" -> {8}
      [] ty = "Handshake" -> {48}

\* byte k (0 the least significant) of the u32 x
ByteOf(x, k) ==
    CASE k = 0 -> x.lo % 256
      [] k = 1 -> x.lo \div 256
      [] k = 2 -> x.hi % 256
      [] k = 3 -> x.hi \div 256

\* the u32 fields of a value in the order the wire format specifies them
FieldsOf(ty, x) ==
    CASE ty = "Ack" ->
            << x.received_last_ack >> \o
            (IF x.info = None THEN << >>
             ELSE << x.info.v.rtt, x.info.v.rtt_var, x.info.v.buffer_size >> \o
                  (IF x.info.v.speed_and_bandwidth = None THEN << >>
                   ELSE x.info.v.speed_and_bandwidth.v))
      [] ty = "Nak" ->
            IF x.variant = "Single" THEN << x.seq_no >> ELSE x.loss_data
      [] ty = "Mdr" -> << x.first_seq_no, x.last_seq_no >>

\* C1: round trip. For Ack (three tiers), Nak (Single, Multiple),
\* MessageDropRequest and Handshake (Stream, Datagram): serialize into a
\* buffer at least as long as the value's wire size returns a slice, and
\* deserialize of the returned slice succeeds with a value equal to the one
\* serialized, field by field.
C1_RoundTrip ==
    /\ (call \in SerializeCalls /\ Len(before) >= WireSize(TypeOf(call), val))
          => out # None
    /\ (call \in DeserializeCalls /\ val # None) => dec = Some(val)

\* C1 witness: a Datagram handshake with a negative request_type and an
\* all-ones cookie came back from the round trip.
C1_Witness ==
    /\ call = "HandshakeControlInfo::deserialize"
    /\ val # None
    /\ val.socket_type = "Datagram"
    /\ val.request_type < 0
    /\ val.cookie = WMax
    /\ dec # None

\* C2 (as claimed): every deserialize returns nothing for every buffer whose
\* length is not a wire length of the type (Handshake 48; Ack 4, 16, 24;
\* Nak 4, 8; MessageDropRequest 8), shorter or longer.
C2_WrongLengthRejected ==
    (call \in DeserializeCalls /\ Len(buffer) \notin WireLengths(TypeOf(call)))
        => dec = None

\* C3: HandshakeControlInfo::deserialize returns nothing for every buffer
\* whose byte at offset 0 is not 4 or whose byte at offset 4 is neither 1
\* nor 2, whatever the other bytes are.
C3_BadVersionOrTypeRejected ==
    (/\ call = "HandshakeControlInfo::deserialize"
     /\ \/ (Len(buffer) >= 1 /\ buffer[1] # 4)
        \/ (Len(buffer) >= 5 /\ buffer[5] \notin {1, 2}))
        => dec = None

\* C3 witness: a 48-byte payload with version 4 and socket type 3 was
\* refused.
C3_Witness ==
    /\ call = "HandshakeControlInfo::deserialize"
    /\ Len(buffer) = 48
    /\ buffer[1] = 4
    /\ buffer[5] = 3
    /\ dec = None

\* C4 (as claimed): serialize either returns the prefix of exactly the
\* value's wire length and leaves every byte after it unchanged, or returns
\* nothing and leaves the whole buffer unchanged.
C4_NoWriteOutsideReported ==
    call \in SerializeCalls =>
        IF out # None
        THEN /\ Len(out.v) = WireSize(TypeOf(call), val)
             /\ out.v = SubSeq(buffer, 1, Len(out.v))
             /\ Len(buffer) = Len(before)
             /\ \A i \in (Len(out.v) + 1)..Len(buffer) : buffer[i] = before[i]
        ELSE buffer = before

\* C5: AckControlInfo::serialize produces exactly 4 bytes without info, 16
\* with info and no speed_and_bandwidth, 24 with speed_and_bandwidth, when
\* the buffer is at least that long; with a shorter buffer it returns
\* nothing, never a shorter tier.
C5_AckTier ==
    call = "AckControlInfo::serialize" =>
        LET need == IF val.info = None THEN 4
                    ELSE IF val.info.v.speed_and_bandwidth = None THEN 16
                    ELSE 24
        IN  IF Len(before) >= need
            THEN out # None /\ Len(out.v) = need
            ELSE out = None

\* C5 witness: a full Ack (24 bytes needed) was refused a 20-byte buffer.
C5_Witness ==
    /\ call = "AckControlInfo::serialize"
    /\ val.info # None
    /\ val.info.v.speed_and_bandwidth # None
    /\ Len(before) = 20
    /\ out = None

\* C6: every 32-bit field is little-endian at its fixed offset, fields in
\* the specified order without padding; Ack{1000, None} encodes to
\* E8 03 00 00 and those bytes decode to info = None;
\* Nak Multiple [5, 10] encodes to 05 00 00 00 0A 00 00 00;
\* MessageDropRequest has first_seq_no at offset 0, last_seq_no at offset 4.
C6_LittleEndianLayout ==
    /\ (call \in SerializeCalls \ {"HandshakeControlInfo::serialize"}
        /\ out # None) =>
          LET fs == FieldsOf(TypeOf(call), val)
          IN  /\ Len(out.v) = 4 * Len(fs)
              /\ \A f \in 1..Len(fs) : \A k \in 0..3 :
                    out.v[4 * (f - 1) + k + 1] = ByteOf(fs[f], k)
    /\ (call \in {"AckControlInfo::serialize", "AckControlInfo::deserialize"}
        /\ val = AckControlInfo(U32Of(1000), None)
        /\ Len(before) >= 4) => out = Some(<< 232, 3, 0, 0 >>)
    /\ (call = "AckControlInfo::deserialize" /\ out = Some(<< 232, 3, 0, 0 >>))
          => (dec # None /\ dec.v.info = None
              /\ dec.v.received_last_ack = U32Of(1000))
    /\ (call = "NakControlInfo::serialize"
        /\ val = NakMultiple(U32Of(5), U32Of(10))
        /\ Len(before) >= 8) => out = Some(<< 5, 0, 0, 0, 10, 0, 0, 0 >>)

\* C6 witness: the four bytes E8 03 00 00 of Ack{1000, None} were decoded.
C6_Witness ==
    /\ call = "AckControlInfo::deserialize"
    /\ val = AckControlInfo(U32Of(1000), None)
    /\ out = Some(<< 232, 3, 0, 0 >>)
    /\ dec # None


-----------------------------------------------------------------------------
(* The AckWindow as a state machine: store and acknowledge in any order,   *)
(* the clock advancing between them                                        *)

TheWindow == Window(items, head, tail)

\* the records of the live range, oldest first
LiveRecords(w) ==
    LET n == Cardinality(ScanRange(w))
    IN  [k \in 1..n |-> w.items[(w.tail + k - 1) % SIZE]]

\* the sequence numbers of the live range, oldest first
LiveSeqNos(w) ==
    LET live == LiveRecords(w)
    IN  [k \in 1..Len(live) |-> live[k].seq_no]

Store ==
    /\ Len(hist) < MaxOps
    /\ \E seq_no \in SeqNos, data_seq_no \in DataSeqNos :
          LET w == AckWindow_store(TheWindow, seq_no, data_seq_no, now)
          IN  /\ items' = w.items
              /\ head' = w.head
              /\ tail' = w.tail
              /\ hist' = Append(hist, [op |-> "store", seq_no |-> seq_no,
                                       data_seq_no |-> data_seq_no,
                                       at |-> now,
                                       live |-> LiveSeqNos(TheWindow)])
    /\ UNCHANGED <<now, ret, call, buffer, before, val, out, dec>>
    /\ UNCHANGED ptwVars

Acknowledge ==
    /\ Len(hist) < MaxOps
    /\ \E seq_no \in SeqNos :
          LET r == AckWindow_acknowledge(TheWindow, seq_no, now)
          IN  /\ items' = r.window.items
              /\ head' = r.window.head
              /\ tail' = r.window.tail
              /\ ret' = r.ret
              /\ hist' = Append(hist, [op |-> "acknowledge",
                                       seq_no |-> seq_no, ret |-> r.ret,
                                       at |-> now,
                                       live |-> LiveSeqNos(TheWindow)])
    /\ UNCHANGED <<now, call, buffer, before, val, out, dec>>
    /\ UNCHANGED ptwVars

Tick ==
    /\ Len(hist) < MaxOps
    /\ now < MaxTime
    /\ now' = now + 1
    /\ hist' = Append(hist, [op |-> "tick"])
    /\ UNCHANGED <<items, head, tail, ret, call, buffer, before, val, out, dec>>
    /\ UNCHANGED ptwVars

InitAck ==
    /\ now = 0
    /\ items = AckWindow_new(now).items
    /\ head = AckWindow_new(now).head
    /\ tail = AckWindow_new(now).tail
    /\ ret = None
    /\ hist = << >>
    /\ buffer = << >>
    /\ CodecIdle
    /\ PtwIdle

NextAck ==
    \/ Store
    \/ Acknowledge
    \/ Tick

SpecAck == InitAck /\ [][NextAck]_vars


-----------------------------------------------------------------------------
(* Properties of the AckWindow *)

\* the store and acknowledge calls made so far, oldest first
Calls == SelectSeq(hist, LAMBDA e : e.op # "tick")

\* the last step taken, when there is one
LastStep == hist[Len(hist)]

Elems(q) == {q[k] : k \in 1..Len(q)}

\* the position of the first s in the sequence q, 0 when there is none
FirstIndex(q, s) ==
    IF s \in Elems(q)
    THEN CHOOSE k \in 1..Len(q) : q[k] = s /\ \A m \in 1..(k - 1) : q[m] # s
    ELSE 0

\* calls j, j+1 are store(s1, d1), store(s2, d2) with s1 # s2, made in a
\* window with no live s1 or s2; calls j+2 .. p-1 are stores of other
\* sequence numbers, few enough to keep s2's record; call p is
\* acknowledge(s2)
StoredThenAcknowledged(c, j, p) ==
    /\ c[j].op = "store"
    /\ c[j + 1].op = "store"
    /\ c[j].seq_no # c[j + 1].seq_no
    /\ c[j].seq_no \notin Elems(c[j].live)
    /\ c[j + 1].seq_no \notin Elems(c[j].live)
    /\ \A m \in (j + 2)..(p - 1) :
          /\ c[m].op = "store"
          /\ c[m].seq_no \notin {c[j].seq_no, c[j + 1].seq_no}
    /\ p - (j + 1) <= SIZE - 1
    /\ c[p].op = "acknowledge"
    /\ c[p].seq_no = c[j + 1].seq_no

\* C7: from any reachable window with no live s1 or s2 (s1 # s2), after
\* store(s1, d1), store(s2, d2) and further stores of other sequence numbers
\* that do not evict s2, acknowledge(s2) returns data_seq_no = d2 with a
\* non-negative RTT, and an acknowledge(s1) right after it returns nothing.
C7_AcknowledgeSecondPrunesFirst ==
    LET c == Calls
    IN  \A j \in 1..Len(c) : \A p \in (j + 2)..Len(c) :
           StoredThenAcknowledged(c, j, p) =>
              /\ c[p].ret # None
              /\ c[p].ret.v.data_seq_no = c[j + 1].data_seq_no
              /\ c[p].ret.v.rtt >= 0
              /\ (/\ p < Len(c)
                  /\ c[p + 1].op = "acknowledge"
                  /\ c[p + 1].seq_no = c[j].seq_no) => c[p + 1].ret = None

\* C7 witness: in a window that already held a live record, s1 and s2 were
\* stored, time passed, acknowledge(s2) answered and acknowledge(s1) was
\* then made.
C7_Witness ==
    LET c == Calls
    IN  \E j \in 1..Len(c) : \E p \in (j + 2)..Len(c) :
           /\ StoredThenAcknowledged(c, j, p)
           /\ c[j].live # << >>
           /\ c[p].ret # None
           /\ p + 1 = Len(c)
           /\ c[p + 1].op = "acknowledge"
           /\ c[p + 1].seq_no = c[j].seq_no

\* the first k calls are stores of pairwise distinct sequence numbers on the
\* fresh window and call k+1 is an acknowledge
FreshStoresThenAcknowledge(c, k) ==
    /\ k >= 1
    /\ k < Len(c)
    /\ \A m \in 1..k : c[m].op = "store"
    /\ \A m, n \in 1..k : m # n => c[m].seq_no # c[n].seq_no
    /\ c[k + 1].op = "acknowledge"

Min(a, b) == IF a <= b THEN a ELSE b

\* C8: after k stores of pairwise distinct sequence numbers on a fresh
\* window, acknowledge(s_j) returns a result exactly when the j-th store is
\* among the most recent min(k, SIZE-1) stores, and nothing for an evicted
\* sequence number.
C8_OldestEvicted ==
    LET c == Calls
    IN  \A k \in 1..Len(c) :
           FreshStoresThenAcknowledge(c, k) =>
              \A j \in 1..k :
                 c[k + 1].seq_no = c[j].seq_no =>
                    (c[k + 1].ret # None <=> j > k - Min(k, SIZE - 1))

\* C8 witness: SIZE stores filled the window and the acknowledge of the
\* first of them, evicted, returned nothing.
C8_Witness ==
    LET c == Calls
    IN  /\ Len(c) = SIZE + 1
        /\ FreshStoresThenAcknowledge(c, SIZE)
        /\ c[SIZE + 1].seq_no = c[1].seq_no
        /\ c[SIZE + 1].ret = None

\* the last step was an acknowledge that matched the most recently stored
\* record of the window
MatchedNewest ==
    /\ hist # << >>
    /\ LastStep.op = "acknowledge"
    /\ LastStep.live # << >>
    /\ FirstIndex(LastStep.live, LastStep.seq_no) = Len(LastStep.live)

\* C9 (as claimed): whenever acknowledge matches the most recently stored
\* record, the window is reset to head = 0 and tail = 0, whether head had
\* wrapped or not.
C9_NewestMatchResets ==
    MatchedNewest => (head = 0 /\ tail = 0)

\* C10: an acknowledge that finds no live record with its sequence number
\* returns nothing and leaves head, tail and every stored record unchanged.
C10_MissChangesNothing ==
    [][(/\ hist' # hist
        /\ hist'[Len(hist')].op = "acknowledge"
        /\ hist'[Len(hist')].seq_no \notin Elems(LiveSeqNos(TheWindow)))
       => (/\ ret' = None
           /\ hist'[Len(hist')].ret = None
           /\ items' = items
           /\ head' = head
           /\ tail' = tail
           /\ LiveRecords(TheWindow)' = LiveRecords(TheWindow))]_vars

\* C10 witness: an acknowledge missed in a wrapped window holding SIZE-1
\* live records.
C10_Witness ==
    /\ hist # << >>
    /\ LastStep.op = "acknowledge"
    /\ LastStep.ret = None
    /\ Len(LastStep.live) = SIZE - 1
    /\ LastStep.seq_no \notin Elems(LastStep.live)
    /\ head < tail
    /\ Len(LiveRecords(TheWindow)) = SIZE - 1

-----------------------------------------------------------------------------
(* The PacketTimeWindow machine: one time window, called MaxCalls times.   *)
(* Each call happens some time after the previous one; the time that has   *)
(* passed is an input of the call.                                         *)

\* time between two calls, before an on_packet_arrival
ArrivalGaps == {Duration(0, 0), from_micros(1), from_micros(6), from_secs(2)}

\* time between two calls, before a probe1_arrival
Probe1Gaps == {from_micros(1)}

\* time between two calls, before a probe2_arrival
Probe2Gaps == {Duration(0, 0), from_millis(3), from_secs(2)}

\* time between two calls, before an on_packet_sent
SentGaps == {Duration(0, 500), from_micros(5)}

TheTimeWindow ==
    [ packet_window |-> packet_window,
      packet_window_index |-> packet_window_index,
      probe_window |-> probe_window,
      probe_window_index |-> probe_window_index,
      last_sent_time |-> last_sent_time,
      min_packet_sending_interval |-> min_packet_sending_interval,
      last_arrival_time |-> last_arrival_time,
      current_arrival_time |-> current_arrival_time,
      probe_time |-> probe_time ]

\* the call named op, made at the Instant t, has left the time window as w
Called(op, t, arg, w) ==
    /\ clock' = t
    /\ packet_window' = w.packet_window
    /\ packet_window_index' = w.packet_window_index
    /\ probe_window' = w.probe_window
    /\ probe_window_index' = w.probe_window_index
    /\ last_sent_time' = w.last_sent_time
    /\ min_packet_sending_interval' = w.min_packet_sending_interval
    /\ last_arrival_time' = w.last_arrival_time
    /\ current_arrival_time' = w.current_arrival_time
    /\ probe_time' = w.probe_time
    /\ plog' = Append(plog, [op |-> op, at |-> t, arg |-> arg])
    /\ UNCHANGED <<call, buffer, before, val, out, dec>>
    /\ UNCHANGED <<items, head, tail, now, ret, hist>>

OnPacketArrival ==
    /\ Len(plog) < MaxCalls
    /\ \E gap \in ArrivalGaps :
          LET t == Later(clock, gap)
          IN  Called("on_packet_arrival", t, t,
                     on_packet_arrival(TheTimeWindow, t))

Probe1Arrival ==
    /\ Len(plog) < MaxCalls
    /\ \E gap \in Probe1Gaps :
          LET t == Later(clock, gap)
          IN  Called("probe1_arrival", t, t, probe1_arrival(TheTimeWindow, t))

Probe2Arrival ==
    /\ Len(plog) < MaxCalls
    /\ \E gap \in Probe2Gaps :
          LET t == Later(clock, gap)
          IN  Called("probe2_arrival", t, t, probe2_arrival(TheTimeWindow, t))

\* on_packet_sent(current_time) with the Instant of the call, or with the
\* Instant of the construction (a current_time that is not later than
\* last_sent_time)
OnPacketSent ==
    /\ Len(plog) < MaxCalls
    /\ \E gap \in SentGaps :
          LET t == Later(clock, gap)
          IN  \E current_time \in {t, Duration(0, 0)} :
                 Called("on_packet_sent", t, current_time,
                        on_packet_sent(TheTimeWindow, current_time))

InitPtw ==
    /\ PtwIdle
    /\ WindowIdle
    /\ buffer = << >>
    /\ CodecIdle

NextPtw ==
    \/ OnPacketArrival
    \/ Probe1Arrival
    \/ Probe2Arrival
    \/ OnPacketSent

SpecPtw == InitPtw /\ [][NextPtw]_vars

-----------------------------------------------------------------------------
(* Claims about the PacketTimeWindow                                       *)

\* the last n calls on the time window are all calls of op
LastCallsAre(op, n) ==
    /\ Len(plog) >= n
    /\ \A k \in (Len(plog) - n + 1)..Len(plog) : plog[k].op = op

\* the packet window holds the same interval of d microseconds, d >= 1, in
\* every slot, after ARRIVAL_SIZE consecutive on_packet_arrival calls
UniformArrivals(d) ==
    /\ d >= 1
    /\ LastCallsAre("on_packet_arrival", ARRIVAL_SIZE)
    /\ \A i \in 0..(ARRIVAL_SIZE - 1) : as_micros(packet_window[i]) = d

\* the interval every slot holds, when they hold the same
UniformInterval == as_micros(packet_window[0])

\* C11, as stated: after ARRIVAL_SIZE consecutive arrivals that are all d
\* microseconds apart, get_packet_receive_speed() is 1_000_000 / d rounded
\* to the nearest integer.
C11_UniformRateRounded ==
    UniformArrivals(UniformInterval) =>
        \A r \in get_packet_receive_speed(packet_window) :
            r = U64((2 * 1000000 + UniformInterval) \div (2 * UniformInterval))

\* C11, amended: after ARRIVAL_SIZE consecutive arrivals that are all d
\* microseconds apart, get_packet_receive_speed() is 1_000_000 / d truncated
\* toward zero.
C11_UniformRateTruncated ==
    UniformArrivals(UniformInterval) =>
        get_packet_receive_speed(packet_window)
            = {U64(1000000 \div UniformInterval)}

\* arrivals 6 microseconds apart fill the window: 1_000_000 / 6 is 166666.67
C11_Witness == UniformArrivals(6)

\* the Duration of n whole microseconds
Micros(n) == Duration(n \div 1000000, (n % 1000000) * 1000)

\* strictly more than half of the samples of the packet window are d
\* microseconds and every other sample is an extreme outlier: more than
\* 8 times d, or less than one eighth of d
MajorityWithOutliers(d) ==
    LET micros == [i \in 0..(ARRIVAL_SIZE - 1) |-> as_micros(packet_window[i])]
    IN  /\ 2 * Cardinality({i \in 0..(ARRIVAL_SIZE - 1) : micros[i] = d})
              > ARRIVAL_SIZE
        /\ \A i \in 0..(ARRIVAL_SIZE - 1) :
              \/ micros[i] = d
              \/ micros[i] > 8 * d
              \/ 8 * micros[i] < d

\* C12: when strictly more than half of the samples equal d and every other
\* sample is an extreme outlier, get_packet_receive_speed() returns what it
\* returns for a window of samples that all equal d.
C12_OutliersDoNotContribute ==
    \A i \in 0..(ARRIVAL_SIZE - 1) :
        LET d == as_micros(packet_window[i])
        IN  MajorityWithOutliers(d) =>
                get_packet_receive_speed(packet_window)
                    = get_packet_receive_speed(
                          [j \in 0..(ARRIVAL_SIZE - 1) |-> Micros(d)])

\* every call made on the time window so far is one of ops
OnlyCalls(ops) == \A k \in 1..Len(plog) : plog[k].op \in ops

\* C13: after any sequence of probe1_arrival() / probe2_arrival() calls,
\* whatever time has passed between them, get_bandwidth() returns a rate
\* that is neither 0 nor infinite.
C13_BandwidthNonzeroFinite ==
    OnlyCalls({"probe1_arrival", "probe2_arrival"}) =>
        \A r \in get_bandwidth(probe_window) : r # U64(0) /\ r # U64_MAX

\* the current_time of the k-th call, and of the construction for k = 0
SentAt(k) == IF k = 0 THEN Duration(0, 0) ELSE plog[k].arg

\* the nonzero intervals between consecutive sends observed so far, the
\* first one measured from the construction of the window
NonzeroSendIntervals ==
    {d \in {saturating_duration_since(SentAt(k), SentAt(k - 1)) :
                k \in 1..Len(plog)} : ~is_zero(d)}

\* C14: after any sequence of on_packet_sent() calls on a fresh window,
\* min_packet_sending_interval() is the smallest nonzero interval observed
\* between consecutive sends.
C14_MinIsSmallestNonzeroInterval ==
    (OnlyCalls({"on_packet_sent"}) /\ NonzeroSendIntervals # {}) =>
        /\ min_packet_sending_interval_get(TheTimeWindow)
               \in NonzeroSendIntervals
        /\ \A d \in NonzeroSendIntervals :
               ~Before(d, min_packet_sending_interval_get(TheTimeWindow))

\* the number of samples of the packet window inside the band around the
\* median
RetainedCount ==
    LET micros == [i \in 0..(ARRIVAL_SIZE - 1) |-> as_micros(packet_window[i])]
        median == as_micros(select_nth_unstable(packet_window, ARRIVAL_SIZE,
                                                ARRIVAL_SIZE \div 2))
    IN  Cardinality(InBand(micros, ARRIVAL_SIZE, median))

\* C18: get_packet_receive_speed() returns 0 only when the retained count
\* does not exceed half of ARRIVAL_SIZE; whenever it exceeds half, the rate
\* returned is nonzero.
C18_ZeroOnlyWithoutQuorum ==
    2 * RetainedCount > ARRIVAL_SIZE =>
        U64(0) \notin get_packet_receive_speed(packet_window)

\* the on_packet_arrival calls made so far, oldest first
Arrivals == SelectSeq(plog, LAMBDA e : e.op = "on_packet_arrival")

\* the Instant of the k-th of the arrivals a, and of the construction for
\* k = 0
ArrivedAt(a, k) == IF k = 0 THEN Duration(0, 0) ELSE a[k].at

\* the arrivals, among the n made, whose interval went to slot i
ArrivalsOfSlot(i, n) == {k \in 1..n : (k - 1) % ARRIVAL_SIZE = i}

\* C19: after n on_packet_arrival() calls on a fresh window, the packet
\* window holds the intervals of the most recent min(n, ARRIVAL_SIZE)
\* arrivals, each the time from the arrival before it (the first from the
\* construction) and the 1-second default in every other slot; an arrival
\* into a full window replaces the oldest interval only.
C19_WindowHoldsLatestIntervals ==
    LET a == Arrivals
        n == Len(a)
    IN  \A i \in 0..(ARRIVAL_SIZE - 1) :
            IF ArrivalsOfSlot(i, n) = {}
            THEN /\ packet_window[i] = from_secs(1)
                 /\ i >= n
            ELSE LET k == CHOOSE j \in ArrivalsOfSlot(i, n) :
                              \A l \in ArrivalsOfSlot(i, n) : l <= j
                 IN  /\ Later(ArrivedAt(a, k - 1), packet_window[i])
                            = ArrivedAt(a, k)
                     /\ k > n - ARRIVAL_SIZE

\* one more arrival than the window has slots, the intervals all different:
\* the newest interval has replaced the oldest
C19_Witness ==
    /\ Len(Arrivals) = ARRIVAL_SIZE + 1
    /\ \A i, j \in 0..(ARRIVAL_SIZE - 1) :
          i # j => packet_window[i] # packet_window[j]
    /\ packet_window_index = 1

\* the probe samples in microseconds
ProbeMicros == [i \in 0..(PROBE_SIZE - 1) |-> as_micros(probe_window[i])]

\* the median of the samples: at least PROBE_SIZE / 2 samples are not above
\* it and fewer than PROBE_SIZE / 2 + 1 are below it
ProbeMedian(samples) ==
    CHOOSE m \in {samples[i] : i \in 0..(PROBE_SIZE - 1)} :
        /\ Cardinality({i \in 0..(PROBE_SIZE - 1) : samples[i] < m})
              <= PROBE_SIZE \div 2
        /\ Cardinality({i \in 0..(PROBE_SIZE - 1) : samples[i] <= m})
              > PROBE_SIZE \div 2

\* the samples in the band [m/8, m*8), the eighth taken in whole
\* microseconds
ProbeInBand(samples, m) ==
    {i \in 0..(PROBE_SIZE - 1) :
        8 * samples[i] >= m - (m % 8) /\ samples[i] < 8 * m}

\* r is 1_000_000 divided by total / count, computed in f64 and truncated:
\* the floor of the exact quotient, or one less where the exact quotient is
\* an integer and total / count is not
IsTruncatedRate(r, total, count) ==
    /\ r[1] = 0 /\ r[2] = 0
    /\ LET v == r[3] * 65536 + r[4]
       IN  /\ v * total <= 1000000 * count
           /\ \/ 1000000 * count < (v + 1) * total
              \/ /\ 1000000 * count = (v + 1) * total
                 /\ total % count # 0

\* C20, as stated: get_bandwidth() is 1_000_000 divided by the average of
\* the retained probe samples, truncated, where the retained samples are the
\* samples in the band together with the median sample, each sample of the
\* window counted at most once.
C20_BandwidthAverageOfRetained ==
    LET samples == ProbeMicros
        m == ProbeMedian(samples)
        retained == ProbeInBand(samples, m)
                        \cup {CHOOSE i \in 0..(PROBE_SIZE - 1) : samples[i] = m}
        total == SumOver(samples, retained)
    IN  total > 0 =>
            \A r \in get_bandwidth(probe_window) :
                IsTruncatedRate(r, total, Cardinality(retained))

\* C20, amended: get_bandwidth() is 1_000_000 divided by the average of the
\* median and the samples in the band, truncated: the median is one term of
\* the average and every sample in the band is another, so a median that
\* lies in the band is counted twice.  When that average is 0 the result is
\* u64::MAX.
C20_BandwidthAverageOfMedianAndBand ==
    LET samples == ProbeMicros
        m == ProbeMedian(samples)
        kept == ProbeInBand(samples, m)
        total == m + SumOver(samples, kept)
        count == 1 + Cardinality(kept)
    IN  \A r \in get_bandwidth(probe_window) :
            IF total = 0 THEN r = U64_MAX
            ELSE IsTruncatedRate(r, total, count)

\* probe samples of 3 ms and 1 ms: the median 3 ms and both samples give
\* 1_000_000 / (7000 / 3) = 428, the two samples alone would give 500
C20_Witness ==
    /\ plog # << >>
    /\ plog[Len(plog)].op = "probe2_arrival"
    /\ {ProbeMicros[i] : i \in 0..(PROBE_SIZE - 1)} = {1000, 3000}
    /\ get_bandwidth(probe_window) = {U64(428)}

-----------------------------------------------------------------------------
(* Further claims about the AckWindow                                      *)

AnySeqNo == SeqNos \cup {items[i].seq_no : i \in 0..(SIZE - 1)}

\* the number of live records the last call has left, from the number it
\* found: a store adds one and evicts the oldest from a full window, an
\* acknowledge that matches the k-th live record removes the first k
LiveAfterLastCall ==
    IF LastStep.op = "store"
    THEN Min(Len(LastStep.live) + 1, SIZE - 1)
    ELSE Len(LastStep.live) - FirstIndex(LastStep.live, LastStep.seq_no)

\* C16: in every reachable state of an AckWindow the number of live records
\* is (head - tail) mod SIZE and at most SIZE - 1, and no acknowledge can
\* match a record exactly when head = tail.
C16_LiveCountIsHeadMinusTail ==
    LET n == Len(LiveRecords(TheWindow))
    IN  /\ n = (head - tail + SIZE) % SIZE
        /\ n <= SIZE - 1
        /\ hist = << >> => n = 0
        /\ (hist # << >> /\ LastStep.op # "tick") => n = LiveAfterLastCall
        /\ (\A s \in AnySeqNo :
               AckWindow_acknowledge(TheWindow, s, now).ret = None)
              <=> head = tail

\* C16 witness: a full window, wrapped: SIZE - 1 live records, head below
\* tail, the last store having evicted the oldest record
C16_Witness ==
    /\ hist # << >>
    /\ LastStep.op = "store"
    /\ Len(LastStep.live) = SIZE - 1
    /\ Len(LiveRecords(TheWindow)) = SIZE - 1
    /\ head < tail

-----------------------------------------------------------------------------
(* The two windows together.  An AckWindow and a PacketTimeWindow share no *)
(* state and neither calls the other, so a behaviour works on one of them: *)
(* the calls of the AckWindow machine while the time window is untouched,  *)
(* the calls of the PacketTimeWindow machine while the AckWindow is.       *)

AckWindowCall ==
    /\ plog = << >>
    /\ NextAck

TimeWindowCall ==
    /\ hist = << >>
    /\ NextPtw

NextWindows ==
    \/ AckWindowCall
    \/ TimeWindowCall

SpecWindows == InitPtw /\ [][NextWindows]_vars

\* C17: head and tail stay in 0 .. SIZE-1, packet_window_index in
\* 0 .. ARRIVAL_SIZE-1 and probe_window_index in 0 .. PROBE_SIZE-1, the
\* buffers keep their lengths, and every index that store, acknowledge,
\* on_packet_arrival and probe2_arrival use for an unchecked slot access is
\* an index of the buffer accessed.
C17_IndicesInBounds ==
    /\ head \in 0..(SIZE - 1)
    /\ tail \in 0..(SIZE - 1)
    /\ packet_window_index \in 0..(ARRIVAL_SIZE - 1)
    /\ probe_window_index \in 0..(PROBE_SIZE - 1)
    /\ DOMAIN items = 0..(SIZE - 1)
    /\ DOMAIN packet_window = 0..(ARRIVAL_SIZE - 1)
    /\ DOMAIN probe_window = 0..(PROBE_SIZE - 1)
    /\ AckWindow_store_index(TheWindow) \in DOMAIN items
    /\ \A s \in AnySeqNo :
          AckWindow_acknowledge_indices(TheWindow, s) \subseteq DOMAIN items
    /\ on_packet_arrival_index(TheTimeWindow) \in DOMAIN packet_window
    /\ probe2_arrival_index(TheTimeWindow) \in DOMAIN probe_window

\* C17 witness: an acknowledge has scanned a wrapped window to its end,
\* through the slots tail .. SIZE-1 and 0 .. head-1, without a match
C17_Witness ==
    /\ hist # << >>
    /\ LastStep.op = "acknowledge"
    /\ Len(LastStep.live) = SIZE - 1
    /\ ret = None
    /\ head < tail
    /\ AckWindow_acknowledge_indices(TheWindow, LastStep.seq_no)
           = (0..(SIZE - 1)) \ {head}

-----------------------------------------------------------------------------
(* The records of an AckWindow by their history.  A record is named by the *)
(* position in hist of the store that made it.  Replaying the calls gives  *)
(* the records that were stored and not yet matched, pruned or evicted,    *)
(* oldest first, and for every call the record it is due to return (0 for  *)
(* none): a store adds its record and, beyond SIZE - 1 records, drops the  *)
(* oldest; an acknowledge(s) is due the oldest record with sequence number *)
(* s and drops it together with every record older than it; a record that  *)
(* was dropped is never added again.                                       *)

\* the position in the sequence q of store positions of the first record
\* with sequence number s, 0 when there is none
OldestWith(q, s) ==
    IF \E j \in 1..Len(q) : hist[q[j]].seq_no = s
    THEN CHOOSE j \in 1..Len(q) :
             /\ hist[q[j]].seq_no = s
             /\ \A m \in 1..(j - 1) : hist[q[m]].seq_no # s
    ELSE 0

RECURSIVE Replay(_)
\* the records left and the records due after the first n calls of hist
Replay(n) ==
    IF n = 0 THEN [left |-> << >>, due |-> << >>]
    ELSE LET r == Replay(n - 1)
             e == hist[n]
         IN  IF e.op = "store"
             THEN LET q == Append(r.left, n)
                  IN  [left |-> IF Len(q) > SIZE - 1 THEN Tail(q) ELSE q,
                       due |-> Append(r.due, 0)]
             ELSE IF e.op = "acknowledge"
             THEN LET j == OldestWith(r.left, e.seq_no)
                  IN  IF j = 0 THEN [left |-> r.left, due |-> Append(r.due, 0)]
                      ELSE [left |-> SubSeq(r.left, j + 1, Len(r.left)),
                            due |-> Append(r.due, r.left[j])]
             ELSE [left |-> r.left, due |-> Append(r.due, 0)]

\* the record the store at position k of hist made
StoredAt(k) ==
    [timestamp |-> hist[k].at, seq_no |-> hist[k].seq_no,
     data_seq_no |-> hist[k].data_seq_no]

\* C21: acknowledge only matches records of the live range.  The live range
\* holds exactly the records stored and not yet matched, pruned or evicted;
\* every acknowledge returns the oldest of them with its sequence number and
\* nothing when there is none, so nothing on an empty window, for 0 and -1
\* too; the last call made returned the record it was due, which no call
\* before it was due (the calls before it are the last calls of the states
\* before), so no record is returned twice.
C21_OnlyLiveRecordsMatch ==
    \A r \in {Replay(Len(hist))} :
    \A left \in {[j \in 1..Len(r.left) |-> StoredAt(r.left[j])]} :
        /\ LiveRecords(TheWindow) = left
        /\ \A s \in AnySeqNo \cup {0, -1} :
              LET j == OldestWith(r.left, s)
              IN  AckWindow_acknowledge(TheWindow, s, now).ret
                      = IF j = 0 THEN None ELSE Some(make_ack(left[j], now))
        /\ head = tail =>
              \A s \in AnySeqNo \cup {0, -1} :
                  AckWindow_acknowledge(TheWindow, s, now).ret = None
        /\ \A p \in {Len(hist)} \ {0} :
              /\ hist[p].op = "acknowledge" =>
                    hist[p].ret = IF r.due[p] = 0 THEN None
                                  ELSE Some(make_ack(StoredAt(r.due[p]),
                                                     hist[p].at))
              /\ \A q \in 1..(p - 1) : r.due[p] # 0 => r.due[p] # r.due[q]

\* C21 witness: a record was matched while a newer one stayed live, and the
\* next acknowledge of its sequence number returned nothing although its
\* slot still holds that number
C21_Witness ==
    /\ Len(hist) >= 2
    /\ LastStep.op = "acknowledge"
    /\ LastStep.ret = None
    /\ hist[Len(hist) - 1].op = "acknowledge"
    /\ hist[Len(hist) - 1].ret # None
    /\ hist[Len(hist) - 1].seq_no = LastStep.seq_no
    /\ head # tail
    /\ \E i \in 0..(SIZE - 1) : items[i].seq_no = LastStep.seq_no

\* the positions, in the sequence q of records, of the records with
\* sequence number s
PositionsWith(q, s) == {j \in 1..Len(q) : q[j].seq_no = s}

\* C22: when several live records carry the sequence number s,
\* acknowledge(s) matches the oldest of them: it returns that record's
\* data_seq_no and the time since that record was stored, and the newer
\* records with sequence number s stay live (the matched record, being the
\* oldest of several, is not the newest), the next of them being the one a
\* further acknowledge(s) would return.
C22_OldestDuplicateMatches ==
    [][(/\ hist' # hist
        /\ hist'[Len(hist')].op = "acknowledge")
       => LET pre == LiveRecords(TheWindow)
              same == PositionsWith(pre, hist'[Len(hist')].seq_no)
              j == CHOOSE m \in same : \A k \in same : m <= k
              next == CHOOSE m \in same \ {j} : \A k \in same \ {j} : m <= k
              newer == SubSeq(pre, j + 1, Len(pre))
              after == Window(items', head', tail')
          IN  Cardinality(same) >= 2 =>
                  /\ ret' # None
                  /\ ret' = hist'[Len(hist')].ret
                  /\ ret'.v.data_seq_no = pre[j].data_seq_no
                  /\ ret'.v.rtt = SaturatingDurationSince(now, pre[j].timestamp)
                  /\ LiveRecords(after) = newer
                  /\ \A m \in same \ {j} :
                        \E k \in 1..Len(newer) : newer[k] = pre[m]
                  /\ AckWindow_acknowledge(after, hist'[Len(hist')].seq_no,
                                           now).ret
                         = Some(make_ack(pre[next], now))]_vars

\* C22 witness: two live records of one sequence number, stored at different
\* times with different data_seq_no; the acknowledge returned the older
\* one's data_seq_no and the longer round trip, and the newer one is live
C22_Witness ==
    /\ hist # << >>
    /\ LastStep.op = "acknowledge"
    /\ LET pre == Replay(Len(hist) - 1).left
       IN  /\ Len(pre) = 2
           /\ hist[pre[1]].seq_no = LastStep.seq_no
           /\ hist[pre[2]].seq_no = LastStep.seq_no
           /\ hist[pre[1]].data_seq_no # hist[pre[2]].data_seq_no
           /\ hist[pre[1]].at < hist[pre[2]].at
           /\ hist[pre[2]].at < LastStep.at
           /\ ret # None
           /\ ret.v.data_seq_no = hist[pre[1]].data_seq_no
           /\ ret.v.rtt = LastStep.at - hist[pre[1]].at
           /\ Len(LiveRecords(TheWindow)) = 1
           /\ LiveRecords(TheWindow)[1].data_seq_no = hist[pre[2]].data_seq_no

====
